---- MODULE Spec2Model ----
(***************************************************************************)
(* A model of backend/vector-service/build_index.py: the NDJSON reader,    *)
(* the stable-key resolver, the vector coercer and build_faiss_index, the  *)
(* pipeline that joins vector records to movie records and writes the      *)
(* index and its sidecar metadata.                                         *)
(*                                                                         *)
(* JSON values are records [t, s, n, l]: t is the type ("null", "str",     *)
(* "num", "list"), s the characters of a string, n the value of a number,  *)
(* l the elements of a list.  A field that is absent from a JSON object    *)
(* and a field that is null are both JNull: the code reads every field     *)
(* with dict.get, which returns None for either.                           *)
(***************************************************************************)
EXTENDS Integers, Sequences, FiniteSets, TLC

\* ------------------------------------------------------------ JSON values

JNull == [t |-> "null", s |-> <<>>, n |-> 0, l |-> <<>>]
JStr(s) == [t |-> "str", s |-> s, n |-> 0, l |-> <<>>]
JNum(n) == [t |-> "num", s |-> <<>>, n |-> n, l |-> <<>>]
JList(l) == [t |-> "list", s |-> <<>>, n |-> 0, l |-> l]

\* The elements a list holds: [k, v] with k the kind ("num": the finite
\* number v; "nan", "inf": the JSON extensions NaN and Infinity that
\* json.loads accepts; "huge": a finite number beyond the range of float32,
\* which the conversion turns into an infinity; "text": a string that is no
\* number; "list": a nested list).  The finite numbers of the model are
\* small integers, which float32 holds exactly.
ENum(v) == [k |-> "num", v |-> v]
ENaN == [k |-> "nan", v |-> 0]
EInf == [k |-> "inf", v |-> 0]
EHuge == [k |-> "huge", v |-> 0]
EText(v) == [k |-> "text", v |-> v]
ENested == [k |-> "list", v |-> 0]

\* Python's truth value of a JSON value: None, "", 0 and [] are false.
Truthy(v) ==
    CASE v.t = "null" -> FALSE
      [] v.t = "str" -> v.s # <<>>
      [] v.t = "num" -> v.n # 0
      [] v.t = "list" -> v.l # <<>>

\* Python's `a or b`.
PyOr(a, b) == IF Truthy(a) THEN a ELSE b

\* ---------------------------------------------------------------- strings
\* A string is the sequence of its characters.

Whitespace == {" ", "\t"}

DigitChars == <<"0", "1", "2", "3", "4", "5", "6", "7", "8", "9">>

RECURSIVE Digits(_)
Digits(n) ==
    IF n < 10 THEN <<DigitChars[n + 1]>>
    ELSE Digits(n \div 10) \o <<DigitChars[(n % 10) + 1]>>

\* str(x) for the values a key field holds: a string is itself, a number
\* (non-negative here) its decimal digits.
PyStr(v) ==
    CASE v.t = "str" -> v.s
      [] v.t = "num" -> Digits(v.n)

RECURSIVE LStrip(_)
LStrip(s) ==
    IF s # <<>> /\ Head(s) \in Whitespace THEN LStrip(Tail(s)) ELSE s

RECURSIVE RStrip(_)
RStrip(s) ==
    IF s # <<>> /\ s[Len(s)] \in Whitespace
    THEN RStrip(SubSeq(s, 1, Len(s) - 1))
    ELSE s

\* str.strip()
Strip(s) == RStrip(LStrip(s))

LowerChar(c) ==
    CASE c = "A" -> "a" [] c = "B" -> "b" [] c = "C" -> "c" [] c = "D" -> "d"
      [] c = "E" -> "e" [] c = "F" -> "f" [] c = "G" -> "g" [] c = "H" -> "h"
      [] c = "I" -> "i" [] c = "J" -> "j" [] c = "K" -> "k" [] c = "L" -> "l"
      [] c = "M" -> "m" [] c = "N" -> "n" [] c = "O" -> "o" [] c = "P" -> "p"
      [] c = "Q" -> "q" [] c = "R" -> "r" [] c = "S" -> "s" [] c = "T" -> "t"
      [] c = "U" -> "u" [] c = "V" -> "v" [] c = "W" -> "w" [] c = "X" -> "x"
      [] c = "Y" -> "y" [] c = "Z" -> "z" [] OTHER -> c

\* str.lower()
Lower(s) == [i \in 1..Len(s) |-> LowerChar(s[i])]

EmptyStr == JStr(<<>>)

\* str(m.get(f) or "").strip(), given m.get(f)
FieldText(v) == Strip(PyStr(PyOr(v, EmptyStr)))

\* ------------------------------------------------------------ _stable_key

\* _stable_key trying id before imdbId.
StableKeyIdBeforeImdb(m) ==
    LET imdb_id == FieldText(m.imdbId)
        movie_id == FieldText(m.id)
        key == FieldText(m.key)
        title == Lower(FieldText(m.title))
        year == FieldText(m.year)
    IN  IF movie_id # <<>> THEN movie_id
        ELSE IF imdb_id # <<>> THEN imdb_id
        ELSE IF key # <<>> THEN key
        ELSE IF title # <<>> /\ year # <<>> THEN title \o <<"|">> \o year
        ELSE IF title # <<>> THEN <<"t", "i", "t", "l", "e", ":">> \o title
        ELSE <<>>

_stable_key(m) ==
    LET imdb_id == FieldText(m.imdbId)
        movie_id == FieldText(m.id)
        key == FieldText(m.key)
        title == Lower(FieldText(m.title))
        year == FieldText(m.year)
    IN  IF imdb_id # <<>> THEN imdb_id
        ELSE IF movie_id # <<>> THEN movie_id
        ELSE IF key # <<>> THEN key
        ELSE IF title # <<>> /\ year # <<>> THEN title \o <<"|">> \o year
        ELSE IF title # <<>> THEN <<"t", "i", "t", "l", "e", ":">> \o title
        ELSE <<>>

\* The key build_faiss_index uses for a vector record (line 106).
vector_key(r) ==
    LET k == FieldText(r.key)
    IN  IF k # <<>> THEN k ELSE _stable_key(r)

\* --------------------------------------------------------- _coerce_vector

\* `inferred_dim: int | None = None` before the first usable vector is seen.
NoneDim == -1

Rejected == [ok |-> FALSE, arr |-> <<>>]

\* np.asarray(v, dtype=np.float32) raises on a string that is no number and
\* on a ragged nested list; a regular nested list converts to an array of
\* two dimensions, which `arr.ndim != 1` rejects.  Of the converted
\* elements only the finite numbers within the range of float32 are finite.
Converts(l) == \A i \in 1..Len(l) : l[i].k \in {"num", "nan", "inf", "huge"}

AllFinite(l) == \A i \in 1..Len(l) : l[i].k = "num"

\* _coerce_vector without the check of the expected dimension.
CoerceIgnoringDim(v, expected_dim) ==
    IF v.t # "list" \/ Len(v.l) = 0 THEN Rejected
    ELSE IF ~Converts(v.l) THEN Rejected
    ELSE IF ~AllFinite(v.l) THEN Rejected
    ELSE [ok |-> TRUE, arr |-> [i \in 1..Len(v.l) |-> v.l[i].v]]

_coerce_vector(v, expected_dim) ==
    IF v.t # "list" \/ Len(v.l) = 0 THEN Rejected
    ELSE IF expected_dim # NoneDim /\ Len(v.l) # expected_dim THEN Rejected
    ELSE IF ~Converts(v.l) THEN Rejected
    ELSE IF ~AllFinite(v.l) THEN Rejected
    ELSE [ok |-> TRUE, arr |-> [i \in 1..Len(v.l) |-> v.l[i].v]]

\* ----------------------------------------------------------- _iter_ndjson
\* A line of a file is [text, obj]: text says what the stripped line is
\* ("blank", "hash": starts with #, "slashes": starts with //, "garbage":
\* json.loads raises JSONDecodeError, "scalar": JSON that is no object,
\* "object": a JSON object), obj the object it parses to.  A file is
\* [exists, lines].

EmptyObj ==
    [imdbId |-> JNull, id |-> JNull, key |-> JNull, title |-> JNull,
     year |-> JNull, genre |-> JNull, productionCountry |-> JNull,
     moodTags |-> JNull, vector |-> JNull, line |-> 0]

Line(text) == [text |-> text, obj |-> EmptyObj]
ObjectLine(obj) == [text |-> "object", obj |-> obj]

RECURSIVE IterLines(_, _)
IterLines(lines, i) ==
    IF i > Len(lines) THEN <<>>
    ELSE IF lines[i].text = "blank" THEN IterLines(lines, i + 1)
    ELSE IF lines[i].text \in {"hash", "slashes"} THEN IterLines(lines, i + 1)
    ELSE IF lines[i].text = "garbage" THEN IterLines(lines, i + 1)
    ELSE IF lines[i].text # "object" THEN IterLines(lines, i + 1)
    ELSE <<[lines[i].obj EXCEPT !.line = i]>> \o IterLines(lines, i + 1)

_iter_ndjson(path) ==
    IF ~path.exists THEN <<>> ELSE IterLines(path.lines, 1)

\* ------------------------------------------------------ build_faiss_index

\* BuildMovieByKey keeping the first row of a key instead of the last.
RECURSIVE BuildMovieByKeyFirstWins(_, _)
BuildMovieByKeyFirstWins(rows, n) ==
    IF n = 0 THEN [k \in {} |-> EmptyObj]
    ELSE LET prev == BuildMovieByKeyFirstWins(rows, n - 1)
             key == _stable_key(rows[n])
         IN  IF key = <<>> \/ key \in DOMAIN prev THEN prev
             ELSE [k \in DOMAIN prev \cup {key} |->
                       IF k = key THEN rows[n] ELSE prev[k]]

\* movie_by_key after the first n movie rows (lines 81-86): a row without a
\* key is left out, a row with a key overwrites the entry of that key.
RECURSIVE BuildMovieByKey(_, _)
BuildMovieByKey(rows, n) ==
    IF n = 0 THEN [k \in {} |-> EmptyObj]
    ELSE LET prev == BuildMovieByKey(rows, n - 1)
             key == _stable_key(rows[n])
         IN  IF key = <<>> THEN prev
             ELSE [k \in DOMAIN prev \cup {key} |->
                       IF k = key THEN rows[n] ELSE prev[k]]

\* The scan for the dimension (lines 92-97), from row i on.
RECURSIVE InferDim(_, _)
InferDim(rows, i) ==
    IF i > Len(rows) THEN NoneDim
    ELSE IF rows[i].vector.t = "list" /\ Len(rows[i].vector.l) > 0
         THEN Len(rows[i].vector.l)
         ELSE InferDim(rows, i + 1)

\* `movie_by_key.get(key) or {}`: a stored row is never empty (it holds
\* __line__), so the fallback is taken exactly when the key is not stored.
JoinedMovie(table, key) ==
    IF key \in DOMAIN table THEN table[key] ELSE EmptyObj

\* ComposeItem preferring the vector record's title, year and genre.
ComposeItemVectorFirst(m, r, key) ==
    [imdbId |-> PyOr(m.imdbId, r.imdbId),
     id |-> PyOr(m.id, r.id),
     key |-> key,
     title |-> PyOr(r.title, m.title),
     year |-> PyOr(r.year, m.year),
     genre |-> PyOr(r.genre, m.genre),
     productionCountry |-> PyOr(m.productionCountry, r.productionCountry),
     moodTags |-> PyOr(PyOr(m.moodTags, r.moodTags), JList(<<>>))]

\* The metadata item of lines 117-132.
ComposeItem(m, r, key) ==
    [imdbId |-> PyOr(m.imdbId, r.imdbId),
     id |-> PyOr(m.id, r.id),
     key |-> key,
     title |-> PyOr(m.title, r.title),
     year |-> PyOr(m.year, r.year),
     genre |-> PyOr(m.genre, r.genre),
     productionCountry |-> PyOr(m.productionCountry, r.productionCountry),
     moodTags |-> PyOr(PyOr(m.moodTags, r.moodTags), JList(<<>>))]

\* LoopBody appending the item before the vector is validated.
LoopBodyMetaFirst(acc, r, dim, table) ==
    LET key == vector_key(r)
        vec == _coerce_vector(r.vector, dim)
        item == [item |-> ComposeItem(JoinedMovie(table, key), r, key),
                 src |-> r.line]
    IN  IF key = <<>> THEN [acc EXCEPT !.skipped = @ + 1]
        ELSE IF ~vec.ok
             THEN [acc EXCEPT !.skipped = @ + 1, !.metas = Append(@, item)]
        ELSE [acc EXCEPT
                 !.vectors = Append(@, [arr |-> vec.arr, src |-> r.line]),
                 !.metas = Append(@, item)]

\* LoopBody not counting a record without a key.
LoopBodyKeylessUncounted(acc, r, dim, table) ==
    LET key == vector_key(r)
        vec == _coerce_vector(r.vector, dim)
    IN  IF key = <<>> THEN acc
        ELSE IF ~vec.ok THEN [acc EXCEPT !.skipped = @ + 1]
        ELSE [acc EXCEPT
                 !.vectors = Append(@, [arr |-> vec.arr, src |-> r.line]),
                 !.metas = Append(@, [item |-> ComposeItem(JoinedMovie(table, key), r, key),
                                      src |-> r.line])]

\* LoopBody not counting a record whose vector is rejected.
LoopBodyRejectUncounted(acc, r, dim, table) ==
    LET key == vector_key(r)
        vec == _coerce_vector(r.vector, dim)
    IN  IF key = <<>> THEN [acc EXCEPT !.skipped = @ + 1]
        ELSE IF ~vec.ok THEN acc
        ELSE [acc EXCEPT
                 !.vectors = Append(@, [arr |-> vec.arr, src |-> r.line]),
                 !.metas = Append(@, [item |-> ComposeItem(JoinedMovie(table, key), r, key),
                                      src |-> r.line])]

\* One pass of the loop of lines 105-133 over record r.  acc holds the
\* accumulators [vectors, metas, skipped].  Each appended vector and item
\* carries src, the line of the record it was made from: a history tag of
\* the model, not data of the program.
LoopBody(acc, r, dim, table) ==
    LET key == vector_key(r)
        vec == _coerce_vector(r.vector, dim)
    IN  IF key = <<>> THEN [acc EXCEPT !.skipped = @ + 1]
        ELSE IF ~vec.ok THEN [acc EXCEPT !.skipped = @ + 1]
        ELSE [acc EXCEPT
                 !.vectors = Append(@, [arr |-> vec.arr, src |-> r.line]),
                 !.metas = Append(@, [item |-> ComposeItem(JoinedMovie(table, key), r, key),
                                      src |-> r.line])]

RECURSIVE SumSq(_)
SumSq(a) == IF a = <<>> THEN 0 ELSE Head(a) * Head(a) + SumSq(Tail(a))

\* A row of mat / norms (lines 139-141), kept exact: the row is num
\* divided by the square root of den2, and a zero norm is replaced by 1.
Normalize(a) ==
    [num |-> a, den2 |-> IF SumSq(a) = 0 THEN 1 ELSE SumSq(a)]

\* Assemble without the check of line 135.
AssembleNoCheck(vs) ==
    [ok |-> TRUE, error |-> "none",
     rows |-> [i \in 1..Len(vs) |->
                  [row |-> Normalize(vs[i].arr), src |-> vs[i].src]]]

\* Assemble refusing a single surviving vector.
AssembleNeedsTwo(vs) ==
    IF Len(vs) < 2
    THEN [ok |-> FALSE, error |-> "No valid vectors to index", rows |-> <<>>]
    ELSE [ok |-> TRUE, error |-> "none",
          rows |-> [i \in 1..Len(vs) |->
                       [row |-> Normalize(vs[i].arr), src |-> vs[i].src]]]

\* Lines 135-146: the check that a vector survived, then the matrix and
\* the in-memory index, whose rows are added in the order of `vectors`.
Assemble(vs) ==
    IF vs = <<>>
    THEN [ok |-> FALSE, error |-> "No valid vectors to index", rows |-> <<>>]
    ELSE [ok |-> TRUE, error |-> "none",
          rows |-> [i \in 1..Len(vs) |->
                       [row |-> Normalize(vs[i].arr), src |-> vs[i].src]]]

\* meta_obj (lines 151-156).
MetaObj(dim, ms, sk) ==
    [dim |-> dim, count |-> Len(ms), skipped |-> sk, items |-> ms]

\* ------------------------------------------------------------------ state

VARIABLES
    movies_file,    \* the movies dataset on disk: [exists, lines]
    vectors_file,   \* the vectors dataset on disk: [exists, lines]
    pc,             \* where build_faiss_index stands
    movies_rows,    \* _iter_ndjson(movies_ndjson)
    movie_by_key,   \* the join table
    vector_rows,    \* _iter_ndjson(vectors_ndjson)
    inferred_dim,
    pos,            \* the index in vector_rows of the next record of the loop
    acc,            \* [vectors, metas, skipped]
    index,          \* the rows added to the in-memory index
    index_file,     \* out_index on disk: [written, rows]
    meta_file,      \* out_meta on disk: [written, obj]
    error,          \* the message of the ValueError raised, or "none"
    rec,            \* a record handed to the key resolver
    kpc,            \* where the key resolution of rec stands
    movie_k,        \* the key rec is stored under as a movie record
    vector_k        \* the key rec is looked up under as a vector record

vars ==
    <<movies_file, vectors_file, pc, movies_rows, movie_by_key, vector_rows,
      inferred_dim, pos, acc, index, index_file, meta_file, error,
      rec, kpc, movie_k, vector_k>>

pipeline_vars ==
    <<movies_file, vectors_file, pc, movies_rows, movie_by_key, vector_rows,
      inferred_dim, pos, acc, index, index_file, meta_file, error>>

key_vars == <<rec, kpc, movie_k, vector_k>>

\* ----------------------------------------------------------------- inputs

\* The lines of both datasets together.
MaxLines == 3

tt1 == <<"t", "t", "1">>
k2 == <<"k", "2">>

MovieHeat ==
    [EmptyObj EXCEPT !.imdbId = JStr(tt1),
                     !.title = JStr(<<"H", "e", "a", "t">>),
                     !.year = JNum(1995),
                     !.genre = JStr(<<"C", "r", "i", "m", "e">>),
                     !.moodTags = JList(<<EText(1)>>)]

\* The same key as MovieHeat once trimmed; an empty title and a zero year.
MovieHollow ==
    [EmptyObj EXCEPT !.imdbId = JStr(<<" ">> \o tt1 \o <<" ">>),
                     !.title = JStr(<<>>),
                     !.year = JNum(0),
                     !.productionCountry = JStr(<<"U", "S">>)]

MovieUp ==
    [EmptyObj EXCEPT !.title = JStr(<<"U", "p">>),
                     !.genre = JStr(<<"F", "a", "m", "i", "l", "y">>)]

MovieNoKey == [EmptyObj EXCEPT !.genre = JStr(<<"D", "r", "a", "m", "a">>)]

MovieLines ==
    {ObjectLine(MovieHeat), ObjectLine(MovieHollow), ObjectLine(MovieUp),
     ObjectLine(MovieNoKey), Line("blank"), Line("hash")}

VectorHeat ==
    [EmptyObj EXCEPT !.key = JStr(tt1),
                     !.vector = JList(<<ENum(3), ENum(4)>>),
                     !.title = JStr(<<"V">>),
                     !.year = JNum(1990),
                     !.genre = JStr(<<"A", "c", "t", "i", "o", "n">>)]

VectorZero ==
    [EmptyObj EXCEPT !.imdbId = JStr(tt1),
                     !.vector = JList(<<ENum(0), ENum(0)>>)]

VectorUp ==
    [EmptyObj EXCEPT !.title = JStr(<<"U", "P", " ">>),
                     !.vector = JList(<<ENum(1)>>)]

VectorNoKey == [EmptyObj EXCEPT !.vector = JList(<<ENum(1), ENum(2)>>)]

VectorNaN ==
    [EmptyObj EXCEPT !.key = JStr(k2), !.vector = JList(<<ENaN, ENum(1)>>)]

VectorHuge ==
    [EmptyObj EXCEPT !.key = JStr(k2), !.vector = JList(<<ENum(1), EHuge>>)]

VectorText ==
    [EmptyObj EXCEPT !.key = JStr(k2),
                     !.vector = JList(<<EText(1), EInf, ENested>>)]

VectorNoList ==
    [EmptyObj EXCEPT !.key = JStr(k2), !.vector = JStr(<<"x">>)]

VectorEmpty == [EmptyObj EXCEPT !.key = JStr(k2), !.vector = JList(<<>>)]

VectorLines ==
    {ObjectLine(VectorHeat), ObjectLine(VectorZero), ObjectLine(VectorUp),
     ObjectLine(VectorNoKey), ObjectLine(VectorNaN), ObjectLine(VectorHuge),
     ObjectLine(VectorText),
     ObjectLine(VectorNoList), ObjectLine(VectorEmpty),
     Line("garbage"), Line("scalar"), Line("slashes")}

MissingFile == [exists |-> FALSE, lines |-> <<>>]

\* The files of n lines drawn from S, and for n = 0 the missing file too.
Files(S, n) ==
    {[exists |-> TRUE, lines |-> l] : l \in [1..n -> S]}
        \cup (IF n = 0 THEN {MissingFile} ELSE {})

NoAcc == [vectors |-> <<>>, metas |-> <<>>, skipped |-> 0]
NoIndexFile == [written |-> FALSE, rows |-> <<>>]
NoMetaFile == [written |-> FALSE, obj |-> MetaObj(NoneDim, <<>>, 0)]

\* ---------------------------------------------------------------- actions

KeyIdle ==
    /\ rec = EmptyObj
    /\ kpc = "idle"
    /\ movie_k = <<>>
    /\ vector_k = <<>>

Init ==
    /\ \E m \in 0..MaxLines : \E v \in 0..(MaxLines - m) :
          /\ movies_file \in Files(MovieLines, m)
          /\ vectors_file \in Files(VectorLines, v)
    /\ pc = "start"
    /\ movies_rows = <<>>
    /\ movie_by_key = [k \in {} |-> EmptyObj]
    /\ vector_rows = <<>>
    /\ inferred_dim = NoneDim
    /\ pos = 1
    /\ acc = NoAcc
    /\ index = <<>>
    /\ index_file = NoIndexFile
    /\ meta_file = NoMetaFile
    /\ error = "none"
    /\ KeyIdle

\* Lines 80-86.
ReadMovies ==
    /\ pc = "start"
    /\ movies_rows' = _iter_ndjson(movies_file)
    /\ movie_by_key' = BuildMovieByKey(movies_rows', Len(movies_rows'))
    /\ pc' = "movies_read"
    /\ UNCHANGED <<movies_file, vectors_file, vector_rows, inferred_dim, pos,
                   acc, index, index_file, meta_file, error>>
    /\ UNCHANGED key_vars

\* Lines 88-90.
ReadVectors ==
    /\ pc = "movies_read"
    /\ vector_rows' = _iter_ndjson(vectors_file)
    /\ IF vector_rows' = <<>>
       THEN pc' = "failed" /\ error' = "No vectors found"
       ELSE pc' = "vectors_read" /\ error' = error
    /\ UNCHANGED <<movies_file, vectors_file, movies_rows, movie_by_key,
                   inferred_dim, pos, acc, index, index_file, meta_file>>
    /\ UNCHANGED key_vars

\* Lines 92-103.
InferDimension ==
    /\ pc = "vectors_read"
    /\ inferred_dim' = InferDim(vector_rows, 1)
    /\ IF inferred_dim' = NoneDim
       THEN pc' = "failed" /\ error' = "No valid vectors found"
       ELSE pc' = "loop" /\ error' = error
    /\ pos' = 1
    /\ acc' = NoAcc
    /\ UNCHANGED <<movies_file, vectors_file, movies_rows, movie_by_key,
                   vector_rows, index, index_file, meta_file>>
    /\ UNCHANGED key_vars

\* One iteration of the loop of lines 105-133.
ProcessRecord ==
    /\ pc = "loop"
    /\ pos <= Len(vector_rows)
    /\ acc' = LoopBody(acc, vector_rows[pos], inferred_dim, movie_by_key)
    /\ pos' = pos + 1
    /\ UNCHANGED <<movies_file, vectors_file, pc, movies_rows, movie_by_key,
                   vector_rows, inferred_dim, index, index_file, meta_file,
                   error>>
    /\ UNCHANGED key_vars

\* Lines 135-146, once the loop is over.
BuildIndex ==
    /\ pc = "loop"
    /\ pos > Len(vector_rows)
    /\ LET a == Assemble(acc.vectors)
       IN  /\ index' = a.rows
           /\ error' = a.error
           /\ pc' = IF a.ok THEN "indexed" ELSE "failed"
    /\ UNCHANGED <<movies_file, vectors_file, movies_rows, movie_by_key,
                   vector_rows, inferred_dim, pos, acc, index_file, meta_file>>
    /\ UNCHANGED key_vars

\* Lines 148-149.
WriteIndex ==
    /\ pc = "indexed"
    /\ index_file' = [written |-> TRUE, rows |-> index]
    /\ pc' = "index_written"
    /\ UNCHANGED <<movies_file, vectors_file, movies_rows, movie_by_key,
                   vector_rows, inferred_dim, pos, acc, index, meta_file,
                   error>>
    /\ UNCHANGED key_vars

\* Lines 151-162.
WriteMeta ==
    /\ pc = "index_written"
    /\ meta_file' = [written |-> TRUE,
                     obj |-> MetaObj(inferred_dim, acc.metas, acc.skipped)]
    /\ pc' = "done"
    /\ UNCHANGED <<movies_file, vectors_file, movies_rows, movie_by_key,
                   vector_rows, inferred_dim, pos, acc, index, index_file,
                   error>>
    /\ UNCHANGED key_vars

Next ==
    \/ ReadMovies
    \/ ReadVectors
    \/ InferDimension
    \/ ProcessRecord
    \/ BuildIndex
    \/ WriteIndex
    \/ WriteMeta

Spec == Init /\ [][Next]_vars

\* ------------------------------------------------ the two uses of the key
\* SpecKey hands one record to the key resolution of a movie record (line
\* 83) and to that of a vector record (line 106).

ImdbIdValues ==
    {JNull, JStr(<<>>), JStr(<<" ">>), JStr(<<" ">> \o tt1 \o <<" ">>),
     JNum(0), JNum(7)}

IdValues ==
    {JNull, JStr(<<"\t">>), JStr(<<"m", "1">>), JNum(0), JNum(42)}

KeyValues == {JNull, JStr(<<" ">>), JStr(k2 \o <<" ">>), JNum(0)}

TitleValues ==
    {JNull, JStr(<<>>), JStr(<<" ", " ">>), JStr(<<" ", "U", "p", " ">>)}

YearValues ==
    {JNull, JStr(<<" ">>), JStr(<<"2", "0", "0", "9", " ">>), JNum(0),
     JNum(2009)}

KeyRecords ==
    {[EmptyObj EXCEPT !.imdbId = a, !.id = b, !.key = c, !.title = d,
                      !.year = e] :
        a \in ImdbIdValues, b \in IdValues, c \in KeyValues,
        d \in TitleValues, e \in YearValues}

PipelineIdle ==
    /\ movies_file = MissingFile
    /\ vectors_file = MissingFile
    /\ pc = "idle"
    /\ movies_rows = <<>>
    /\ movie_by_key = [k \in {} |-> EmptyObj]
    /\ vector_rows = <<>>
    /\ inferred_dim = NoneDim
    /\ pos = 1
    /\ acc = NoAcc
    /\ index = <<>>
    /\ index_file = NoIndexFile
    /\ meta_file = NoMetaFile
    /\ error = "none"

InitKey ==
    /\ PipelineIdle
    /\ rec \in KeyRecords
    /\ kpc = "start"
    /\ movie_k = <<>>
    /\ vector_k = <<>>

\* Line 83: the key a movie record is stored under.
StoreMovieKey ==
    /\ kpc = "start"
    /\ movie_k' = _stable_key(rec)
    /\ kpc' = "stored"
    /\ UNCHANGED <<rec, vector_k>>
    /\ UNCHANGED pipeline_vars

\* Line 106: the key a vector record is looked up under.
LookupVectorKey ==
    /\ kpc = "stored"
    /\ vector_k' = vector_key(rec)
    /\ kpc' = "done"
    /\ UNCHANGED <<rec, movie_k>>
    /\ UNCHANGED pipeline_vars

NextKey == StoreMovieKey \/ LookupVectorKey

SpecKey == InitKey /\ [][NextKey]_vars

\* ----------------------------------------------------------------- claims

Min(S) == CHOOSE x \in S : \A y \in S : x <= y
Max(S) == CHOOSE x \in S : \A y \in S : x >= y

\* The text of an identifying field as a candidate: its value as text,
\* trimmed; a field that is absent, null, or empty (false in Python) gives
\* the empty text.
CandidateText(v) == IF Truthy(v) THEN Strip(PyStr(v)) ELSE <<>>

\* The five candidates of a record, in the order of the precedence; a
\* candidate that does not apply is the empty text.
Candidates(m) ==
    LET title == Lower(CandidateText(m.title))
        year == CandidateText(m.year)
    IN  <<CandidateText(m.imdbId),
          CandidateText(m.id),
          CandidateText(m.key),
          IF title # <<>> /\ year # <<>> THEN title \o <<"|">> \o year ELSE <<>>,
          IF title # <<>> THEN <<"t", "i", "t", "l", "e", ":">> \o title ELSE <<>>>>

UsableCandidates(m) == {i \in 1..5 : Candidates(m)[i] # <<>>}

\* C5: _stable_key returns the first non-empty candidate in the order
\* imdbId, id, key, title|year, title:title, and the empty string exactly
\* when no candidate is usable.
C5_KeyPrecedence ==
    kpc # "start" =>
        /\ (UsableCandidates(rec) = {}) <=> (movie_k = <<>>)
        /\ UsableCandidates(rec) # {} =>
               movie_k = Candidates(rec)[Min(UsableCandidates(rec))]

\* A record whose imdbId is empty and whose id and key are both usable has
\* been resolved to its id; and another with only a title to "title:up".
C5_Witness ==
    /\ kpc = "done"
    /\ CandidateText(rec.imdbId) = <<>>
    /\ CandidateText(rec.id) # <<>>
    /\ CandidateText(rec.key) # <<>>
    /\ CandidateText(rec.title) # <<>>
    /\ movie_k = CandidateText(rec.id)

\* C4: the key a movie record is stored under equals the key a vector
\* record with the same identifying fields is looked up under.
C4_SameKeySpace == kpc = "done" => movie_k = vector_k

\* The vector rows the loop has processed so far.
Processed == {vector_rows[j] : j \in 1..(pos - 1)}

\* The row of the vectors dataset read from line n.
RowOfLine(n) == CHOOSE r \in {vector_rows[j] : j \in DOMAIN vector_rows} : r.line = n

Sources(seq) == {seq[i].src : i \in DOMAIN seq}

\* The numbers of a list of finite numbers.
NumbersOf(v) == [i \in 1..Len(v.l) |-> v.l[i].v]

LoopStarted == pc \in {"loop", "indexed", "index_written", "done"}
    \/ (pc = "failed" /\ error = "No valid vectors to index")

\* C1: vectors and metas have equal length after every prefix of the loop;
\* position i of both comes from the same source record; retained records
\* are in file order; the index rows and the sidecar items keep that order.
C1_Alignment ==
    LET vs == acc.vectors
        ms == acc.metas
    IN  /\ Len(vs) = Len(ms)
        /\ \A i \in DOMAIN vs :
              /\ vs[i].src = ms[i].src
              /\ \E r \in Processed :
                    /\ r.line = vs[i].src
                    /\ vs[i].arr = NumbersOf(r.vector)
                    /\ ms[i].item.key = vector_key(r)
        /\ \A i, j \in DOMAIN vs : i < j => vs[i].src < vs[j].src
        /\ pc \in {"indexed", "index_written", "done"} =>
              /\ Len(index) = Len(vs)
              /\ \A i \in DOMAIN vs :
                    index[i].src = vs[i].src /\ index[i].row.num = vs[i].arr
        /\ index_file.written => index_file.rows = index
        /\ meta_file.written =>
              /\ meta_file.obj.items = ms
              /\ Len(meta_file.obj.items) = Len(index_file.rows)
              /\ \A i \in DOMAIN ms :
                    meta_file.obj.items[i].src = index_file.rows[i].src

\* Both outputs written with two retained records around a skipped one.
C1_Witness ==
    /\ pc = "done"
    /\ Len(meta_file.obj.items) = 2
    /\ meta_file.obj.skipped = 1
    /\ meta_file.obj.items[1].src = 1
    /\ meta_file.obj.items[2].src = 3

\* The fatal conditions of a run, stated on what was read.
NoUsableVector ==
    \A j \in DOMAIN vector_rows :
        ~(vector_rows[j].vector.t = "list" /\ Len(vector_rows[j].vector.l) > 0)

FatalCondition ==
    \/ pc \notin {"start", "movies_read"} /\ vector_rows = <<>>
    \/ pc \notin {"start", "movies_read", "vectors_read"} /\ NoUsableVector
    \/ LoopStarted /\ pos > Len(vector_rows) /\ acc.vectors = <<>>

\* C2: a run that meets a fatal condition has written neither output, and
\* an output is written only once reading, validation and assembly are
\* over and have succeeded.
C2_NoPartialOutput ==
    /\ (pc = "failed" \/ FatalCondition) =>
          ~index_file.written /\ ~meta_file.written
    /\ (index_file.written \/ meta_file.written) =>
          /\ error = "none"
          /\ inferred_dim # NoneDim
          /\ pos > Len(vector_rows)
          /\ acc.vectors # <<>>
          /\ Len(index) = Len(acc.vectors)
    /\ meta_file.written => index_file.written

\* A run aborted after the loop, every record having been skipped.
C2_Witness ==
    /\ pc = "failed"
    /\ error = "No valid vectors to index"
    /\ acc.skipped = 3
    /\ ~index_file.written
    /\ ~meta_file.written

\* The movie record an item was joined to, and the vector record it was
\* made from.
MovieOf(x) == movie_by_key[x.item.key]
Joined(x) == x.item.key \in DOMAIN movie_by_key

PrecedenceFields == {"title", "year", "genre"}

\* C3 as stated: whatever value the movie record holds for title, year or
\* genre, the item of a joined record has that value.
C3_MoviePrecedence ==
    \A i \in DOMAIN acc.metas :
        LET x == acc.metas[i]
        IN  Joined(x) =>
                \A f \in PrecedenceFields :
                    MovieOf(x)[f] # JNull => x.item[f] = MovieOf(x)[f]

\* C3 amended: the item of a joined record has the movie record's title,
\* year and genre wherever that value is non-empty (true in Python: not
\* null, 0, "" or []), and the vector record's own value wherever it is not.
C3_MoviePrecedenceNonEmpty ==
    \A i \in DOMAIN acc.metas :
        LET x == acc.metas[i]
        IN  Joined(x) =>
                \A f \in PrecedenceFields :
                    /\ Truthy(MovieOf(x)[f]) => x.item[f] = MovieOf(x)[f]
                    /\ ~Truthy(MovieOf(x)[f]) => x.item[f] = RowOfLine(x.src)[f]

\* A joined record whose own title, year and genre all differ from the
\* movie's, written with the movie's.
C3_Witness ==
    /\ pc = "done"
    /\ \E i \in DOMAIN meta_file.obj.items :
          LET x == meta_file.obj.items[i]
          IN  /\ Joined(x)
              /\ \A f \in PrecedenceFields :
                    /\ Truthy(MovieOf(x)[f])
                    /\ Truthy(RowOfLine(x.src)[f])
                    /\ RowOfLine(x.src)[f] # MovieOf(x)[f]
                    /\ x.item[f] = MovieOf(x)[f]

\* The rows with a usable vector, and the dimension the first of them sets.
UsableRows(rows) ==
    {j \in DOMAIN rows : rows[j].vector.t = "list" /\ Len(rows[j].vector.l) > 0}

FirstDim(rows) == Len(rows[Min(UsableRows(rows))].vector.l)

\* A vector of d finite numbers.
GoodVector(v, d) ==
    /\ v.t = "list"
    /\ Len(v.l) = d
    /\ \A i \in 1..Len(v.l) : v.l[i].k = "num"

\* A parsed record with a per-record anomaly: no key, or a vector that is
\* no list of d finite numbers.
AnomalousRecord(r, d) == vector_key(r) = <<>> \/ ~GoodVector(r.vector, d)

\* A line with an anomaly of any kind: it does not parse, it parses to
\* something that is no object, or its record is anomalous.
AnomalousLine(ln, d) ==
    \/ ln.text \in {"garbage", "scalar"}
    \/ ln.text = "object" /\ AnomalousRecord(ln.obj, d)

\* C6 as stated: the skipped value of the sidecar counts every line of the
\* vectors dataset with an anomaly, unparseable and non-object lines
\* included.
C6_SkippedCountsEveryAnomaly ==
    meta_file.written =>
        meta_file.obj.skipped =
            Cardinality({i \in DOMAIN vectors_file.lines :
                            AnomalousLine(vectors_file.lines[i], meta_file.obj.dim)})

\* C6 amended: the skipped value of the sidecar counts the parsed records
\* without a key or with a rejected vector, one each; a line that does not
\* parse to an object is dropped by the reader and is not counted.
C6_SkippedCountsRecords ==
    meta_file.written =>
        /\ meta_file.obj.skipped =
              Cardinality({i \in DOMAIN vectors_file.lines :
                              /\ vectors_file.lines[i].text = "object"
                              /\ AnomalousRecord(vectors_file.lines[i].obj,
                                                 meta_file.obj.dim)})
        /\ pc # "failed"

\* A completed run over a line that does not parse, a record without a key
\* and a retained record: skipped is 1.
C6_Witness ==
    /\ pc = "done"
    /\ \E i \in DOMAIN vectors_file.lines :
          vectors_file.lines[i].text \in {"garbage", "scalar"}
    /\ \E j \in DOMAIN vector_rows : vector_key(vector_rows[j]) = <<>>
    /\ meta_file.obj.skipped = 1

\* (a) of C7: the join table holds, for every key of a movie row, the last
\* row in file order with that key, and nothing else.
LastMovieWins ==
    pc \notin {"start", "idle"} =>
        /\ DOMAIN movie_by_key =
              {_stable_key(movies_rows[i]) : i \in DOMAIN movies_rows} \ {<<>>}
        /\ \A k \in DOMAIN movie_by_key :
              movie_by_key[k] =
                  movies_rows[Max({i \in DOMAIN movies_rows :
                                      _stable_key(movies_rows[i]) = k})]

C8_FixedDimension ==
    /\ LoopStarted =>
          /\ UsableRows(vector_rows) # {}
          /\ inferred_dim = FirstDim(vector_rows)
    /\ (pc = "failed" /\ error = "No valid vectors found") =>
          UsableRows(vector_rows) = {}
    /\ \A i \in DOMAIN acc.vectors : Len(acc.vectors[i].arr) = inferred_dim
    /\ \A r \in Processed :
          (r.vector.t # "list" \/ Len(r.vector.l) # inferred_dim) =>
              /\ r.line \notin Sources(acc.vectors)
              /\ r.line \notin Sources(acc.metas)
    /\ index_file.written =>
          \A i \in DOMAIN index_file.rows :
              Len(index_file.rows[i].row.num) = inferred_dim
    /\ meta_file.written =>
          /\ meta_file.obj.dim = inferred_dim
          /\ meta_file.obj.dim = FirstDim(vector_rows)

\* The first record has no list for a vector, the second sets the
\* dimension to 2 and is retained, the third has a vector of length 1 and
\* a key and is skipped.
C8_Witness ==
    /\ pc = "done"
    /\ Len(vector_rows) = 3
    /\ vector_rows[1].vector.t # "list"
    /\ meta_file.obj.dim = 2
    /\ GoodVector(vector_rows[3].vector, 1)
    /\ vector_key(vector_rows[3]) # <<>>
    /\ Sources(meta_file.obj.items) = {2}
    /\ meta_file.obj.skipped = 2

\* The records of the vectors dataset that survive: a key and a vector of
\* finite numbers of the dataset's dimension.
Survivors ==
    LET rows == _iter_ndjson(vectors_file)
    IN  IF UsableRows(rows) = {} THEN {}
        ELSE {j \in DOMAIN rows : ~AnomalousRecord(rows[j], FirstDim(rows))}

\* C9: the run fails exactly when no vector record survives; with a
\* survivor it runs to its end and writes both outputs, whatever else is
\* skipped and whether or not there are movies.
C9_OnlyEmptinessIsFatal ==
    /\ pc = "failed" => Survivors = {}
    /\ (Survivors = {} /\ pc \notin {"start", "movies_read", "vectors_read", "loop"})
          => pc = "failed"
    /\ pc = "done" => index_file.written /\ meta_file.written /\ Survivors # {}
    /\ (Survivors # {} /\ pc = "loop" /\ pos > Len(vector_rows)) =>
          ENABLED BuildIndex /\ Assemble(acc.vectors).ok

\* A completed run without a movies file, one record retained and two
\* skipped.
C9_Witness ==
    /\ pc = "done"
    /\ ~movies_file.exists
    /\ Cardinality(Survivors) = 1
    /\ meta_file.obj.skipped = 2
    /\ index_file.written
    /\ meta_file.written

\* C10: retained plus skipped is the number of records processed, each
\* processed record being retained once or skipped once; the sidecar's
\* count plus skipped is the number of records read, count is the length
\* of items and is at least 1.
C10_Accounting ==
    /\ Len(acc.metas) + acc.skipped = pos - 1
    /\ Len(acc.vectors) = Len(acc.metas)
    /\ \A r \in Processed :
          Cardinality({i \in DOMAIN acc.metas : acc.metas[i].src = r.line}) <= 1
    /\ Sources(acc.metas) \subseteq {r.line : r \in Processed}
    /\ acc.skipped =
          Cardinality({r \in Processed : r.line \notin Sources(acc.metas)})
    /\ meta_file.written =>
          /\ meta_file.obj.count + meta_file.obj.skipped
                = Len(_iter_ndjson(vectors_file))
          /\ meta_file.obj.count = Len(meta_file.obj.items)
          /\ meta_file.obj.count >= 1

\* A sidecar with one item and two skipped records.
C10_Witness ==
    /\ pc = "done"
    /\ meta_file.obj.count = 1
    /\ meta_file.obj.skipped = 2
    /\ Len(vector_rows) = 3

====
